---- MODULE Spec2Model ----
(***************************************************************************)
(* The MujerOS installer bridge (MujerOS_AllInOne_v3_3.py): a loopback     *)
(* HTTP server that serves each request on its own worker thread and       *)
(* drives the flatpak command-line tool.                                   *)
(*                                                                         *)
(* A text is a sequence of one-character strings, so that str.strip and    *)
(* the APPID_RE match are computed character by character.                 *)
(***************************************************************************)
EXTENDS Integers, Sequences, FiniteSets, TLC

\* Worker threads of the ThreadingHTTPServer; each serves one request.
NumReq == 2
\* Longest appId text a request body carries.
MaxIdLen == 2

\* Longest history of ensure_flathub_user() calls and host changes followed.
MaxLog == 3

Threads == 1..NumReq

---------------------------------------------------------------------------
\* Characters.  "a" stands for [A-Za-z0-9], "-" for the punctuation the
\* grammar allows after the first character (. _ -), "/" for every other
\* printable character; " ", "\n" and "\t" are whitespace.  These are the
\* characters of an appId; other texts use letters as they are.
AlNum == {"a"}
IdPunct == {"-"}
Whitespace == {" ", "\n", "\t"}
Chars == AlNum \cup IdPunct \cup {" ", "\n", "/"}

Texts(n) == UNION {[1..k -> Chars] : k \in 0..n}

RECURSIVE LStrip(_)
LStrip(s) == IF s # <<>> /\ Head(s) \in Whitespace THEN LStrip(Tail(s)) ELSE s

RECURSIVE RStrip(_)
RStrip(s) ==
    IF s # <<>> /\ s[Len(s)] \in Whitespace
    THEN RStrip(SubSeq(s, 1, Len(s) - 1))
    ELSE s

\* str.strip()
Strip(s) == RStrip(LStrip(s))

Lowers ==
    << "a", "b", "c", "d", "e", "f", "g", "h", "i", "j", "k", "l", "m",
       "n", "o", "p", "q", "r", "s", "t", "u", "v", "w", "x", "y", "z" >>

Uppers ==
    << "A", "B", "C", "D", "E", "F", "G", "H", "I", "J", "K", "L", "M",
       "N", "O", "P", "Q", "R", "S", "T", "U", "V", "W", "X", "Y", "Z" >>

Digits == << "0", "1", "2", "3", "4", "5", "6", "7", "8", "9" >>

Index(seq, c) == CHOOSE i \in 1..Len(seq) : seq[i] = c

InSeq(seq, c) == \E i \in 1..Len(seq) : seq[i] = c

\* str.upper() and str.lower()
Upper(s) == [i \in 1..Len(s) |-> IF InSeq(Lowers, s[i]) THEN Uppers[Index(Lowers, s[i])] ELSE s[i]]

Lower(s) == [i \in 1..Len(s) |-> IF InSeq(Uppers, s[i]) THEN Lowers[Index(Uppers, s[i])] ELSE s[i]]

\* The code point of a character, which orders Python's strings.
CodePoint(c) ==
    IF InSeq(Lowers, c) THEN 96 + Index(Lowers, c)
    ELSE IF InSeq(Uppers, c) THEN 64 + Index(Uppers, c)
    ELSE IF InSeq(Digits, c) THEN 47 + Index(Digits, c)
    ELSE IF c = "\t" THEN 9
    ELSE IF c = "\n" THEN 10
    ELSE IF c = " " THEN 32
    ELSE IF c = "-" THEN 45
    ELSE IF c = "." THEN 46
    ELSE IF c = "/" THEN 47
    ELSE 58

\* x <= y for Python strings.
RECURSIVE TextLE(_, _)
TextLE(x, y) ==
    IF x = <<>> THEN TRUE
    ELSE IF y = <<>> THEN FALSE
    ELSE IF Head(x) # Head(y) THEN CodePoint(Head(x)) < CodePoint(Head(y))
    ELSE TextLE(Tail(x), Tail(y))

\* str.split(sep), sep one character.
RECURSIVE Split(_, _)
Split(s, sep) ==
    IF \A i \in 1..Len(s) : s[i] # sep THEN << s >>
    ELSE LET i == CHOOSE i \in 1..Len(s) : s[i] = sep /\ \A j \in 1..(i - 1) : s[j] # sep
         IN << SubSeq(s, 1, i - 1) >> \o Split(SubSeq(s, i + 1, Len(s)), sep)

\* sep.join(parts)
RECURSIVE Join(_, _)
Join(parts, sep) ==
    IF parts = <<>> THEN <<>>
    ELSE IF Len(parts) = 1 THEN parts[1]
    ELSE parts[1] \o << sep >> \o Join(Tail(parts), sep)

\* The grammar ^[A-Za-z0-9][A-Za-z0-9._-]*$ read as a whole-string match.
Grammar(s) ==
    /\ Len(s) >= 1
    /\ s[1] \in AlNum
    /\ \A i \in 2..Len(s) : s[i] \in AlNum \cup IdPunct

APPID_RE_loose(s) == Len(s) >= 1 /\ \A i \in 1..Len(s) : s[i] \in AlNum \cup IdPunct

\* APPID_RE.match(s): Python's $ also matches just before a final newline.
APPID_RE_match(s) ==
    \/ Grammar(s)
    \/ /\ Len(s) >= 1
       /\ s[Len(s)] = "\n"
       /\ Grammar(SubSeq(s, 1, Len(s) - 1))

---------------------------------------------------------------------------
\* Argument lists.  An argument is a fixed text, a package identifier, or a
\* fixed text with a package identifier inside it (the dialog message).
K(s) == [kind |-> "const", pre |-> s, id |-> <<>>, post |-> ""]
IdArg(a) == [kind |-> "id", pre |-> "", id |-> a, post |-> ""]
MsgArg(pre, a, post) == [kind |-> "msg", pre |-> pre, id |-> a, post |-> post]

RemoteAddArgvPlain ==
    << K("flatpak"), K("--user"), K("remote-add"),
       K("flathub"), K("https://dl.flathub.org/repo/flathub.flatpakrepo") >>

RemoteAddArgv ==
    << K("flatpak"), K("--user"), K("remote-add"), K("--if-not-exists"),
       K("flathub"), K("https://dl.flathub.org/repo/flathub.flatpakrepo") >>

RemotesArgv == << K("flatpak"), K("--user"), K("remotes") >>

InstallArgvSystem(app_id) ==
    << K("flatpak"), K("install"), K("-y"), K("flathub"), IdArg(app_id) >>

InstallArgv(app_id) ==
    << K("flatpak"), K("--user"), K("install"), K("-y"), K("flathub"), IdArg(app_id) >>

UpdateArgvSystem == << K("flatpak"), K("update"), K("-y") >>

UpdateArgv == << K("flatpak"), K("--user"), K("update"), K("-y") >>

InfoArgv(app_id) == << K("flatpak"), K("info"), IdArg(app_id) >>

RunArgv(app_id) == << K("flatpak"), K("run"), IdArg(app_id) >>

\* columns_sets
Cols6 == << "application", "name", "version", "branch", "origin", "installation" >>
Cols5 == << "application", "name", "version", "branch", "origin" >>
columns_sets_reversed == << Cols5, Cols6 >>

columns_sets == << Cols6, Cols5 >>

ListArgvNoApp(cols) ==
    << K("flatpak"), K("list"),
       K(IF cols = Cols6
         THEN "--columns=application,name,version,branch,origin,installation"
         ELSE "--columns=application,name,version,branch,origin") >>

ListArgv(cols) ==
    << K("flatpak"), K("list"), K("--app"),
       K(IF cols = Cols6
         THEN "--columns=application,name,version,branch,origin,installation"
         ELSE "--columns=application,name,version,branch,origin") >>

Title == "MujerOS Installer"

InstallMessage(app_id) ==
    MsgArg("Install Flatpak (user):\n\n", app_id, "\n\nRemote: flathub")

UpdateMessage == K("Update ALL user Flatpaks now?")

KdialogArgv(message) ==
    << K("kdialog"), K("--title"), K(Title), K("--yesno"), message >>

ZenityArgv(message) ==
    << K("zenity"), K("--question"), K("--title"), K(Title), K("--text"), message >>

---------------------------------------------------------------------------
\* Requests.
Paths ==
    { "/", "/index.html", "/status", "/flatpak/list", "/install", "/update",
      "/flatpak/run", "/other" }

\* The X-Installer-Token header; "" is what headers.get returns when absent.
Tokens == {"", "tok", "bad"}

\* Request bodies.  "badlength": the Content-Length header is not a number;
\* "empty": no body; "badjson": not parseable; "array": JSON that is not an
\* object; "object": an object without appId; "appId": an object with it.
Body(kind, appId) == [kind |-> kind, appId |-> appId]

Bodies ==
    { Body(k, <<>>) : k \in {"badlength", "empty", "badjson", "array", "object"} }
        \cup { Body("appId", s) : s \in Texts(MaxIdLen) }

\* Bodies of the requests whose handler never reads the body.
UnreadBodies == { Body("empty", <<>>), Body("array", <<>>), Body("appId", <<"a">>) }

NoReq == [method |-> "", path |-> "", tok |-> "", body |-> Body("empty", <<>>)]

\* What a finished subprocess leaves: exit code, stdout, stderr as written.
ProcResults ==
    { [code |-> 0, out |-> <<"a", "\n">>, err |-> <<>>],
      [code |-> 0, out |-> <<"a">>, err |-> <<" ", "/">>],
      [code |-> 1, out |-> <<>>, err |-> <<"/", "\n">>] }

NoProc == [code |-> -1, out |-> <<>>, err |-> <<>>]

\* How Popen can end: the process is started, or an exception with text exc.
LaunchOutcomes ==
    { [started |-> TRUE, exc |-> <<>>],
      [started |-> FALSE, exc |-> << "[Errno 12] Cannot allocate memory" >>],
      [started |-> FALSE, exc |-> <<>>] }

\* Listings the tool can print: rows of tab-separated fields.
Application == << "A", "p", "p", "l", "i", "c", "a", "t", "i", "o", "n" >>
HeaderRow == << Application \o << " ", "I", "D" >>, << "N", "a", "m", "e" >> >>
RowB == << << "b" >>, << "Z" >>, << "1" >>, << "s" >>, << "f" >>, << "u" >> >>
RowC == << << "c" >>, << "a" >>, << "2" >>, << "s" >>, << "f" >>, << "y" >> >>
RowD == << << "d" >> >>
RowE == << << " ", "e", " " >>, <<>>, << "3" >> >>
RowNoId == << <<>>, << "n" >> >>

Listing(rows) == Join([i \in 1..Len(rows) |-> Join(rows[i], "\t")], "\n")

ListTexts ==
    { Listing(<< RowB, RowC >>) \o << "\n" >>,
      Listing(<< HeaderRow, RowD, <<>>, RowE, SubSeq(RowC, 1, 5) >>),
      Listing(<< RowNoId, RowB >>),
      <<>> }

ListResults ==
    { [code |-> 0, out |-> t, err |-> <<>>] : t \in ListTexts }
        \cup { [code |-> 1, out |-> <<>>, err |-> << "e", "\n" >>],
               [code |-> 1, out |-> << "o" >>, err |-> <<>>],
               [code |-> 1, out |-> <<>>, err |-> <<>>] }

\* What `flatpak --user remotes` can print.
Flathub == << "f", "l", "a", "t", "h", "u", "b" >>

RemotesResults ==
    { [code |-> 0, out |-> Flathub \o << "\n" >>, err |-> <<>>],
      [code |-> 0, out |-> Flathub \o << "\t", "u", "\n" >>, err |-> <<>>],
      [code |-> 0, out |-> << "x", "\n" >> \o Flathub \o << " ", "u", "\n" >>, err |-> <<>>],
      [code |-> 0, out |-> Flathub \o << "x", "\n" >>, err |-> <<>>],
      [code |-> 0, out |-> <<>>, err |-> <<>>],
      [code |-> 1, out |-> Flathub, err |-> << "e" >>] }

\* What the probes of gui_confirm find: DISPLAY set, kdialog and zenity on PATH.
GateEnvs == [display : BOOLEAN, kdialog : BOOLEAN, zenity : BOOLEAN]

\* The operator's answer: a dialog's exit status, or the line read from stdin
\* (the empty line is end of input).
DialogAnswers == { [exit |-> c, line |-> <<>>] : c \in {0, 1} }

ConsoleAnswers ==
    { [exit |-> 0, line |-> l] :
        l \in { <<"Y", "E", "S", "\n">>, <<"y", "e", "s", "\n">>, <<>>,
                <<"n", "o", "\n">>, <<" ", "Y", "e", "s", " ", "\n">>,
                <<"y", "e", "s", "s", "\n">>, <<"\n">> } }

NoAnswer == [exit |-> -1, line |-> <<>>]

\* Under Spec the probes of gui_confirm are followed by the provider they
\* select alone; SpecGate follows what they found.
NoEnv == [display |-> FALSE, kdialog |-> FALSE, zenity |-> FALSE]

NoResp == [status |-> 0, payload |-> [none |-> TRUE]]

\* The machine the program runs on, as far as the channel is concerned.
Hosts == [tool : BOOLEAN, channel : BOOLEAN, online : BOOLEAN]

\* Under Spec the machine is not followed: every probe and every subprocess
\* outcome is drawn afresh at each call, which covers every history of it.
NoHost == [tool |-> FALSE, channel |-> FALSE, online |-> FALSE]

---------------------------------------------------------------------------
VARIABLES
    token,      \* httpd.token
    pc,         \* per thread: idle, confirm, running, done, crashed
    req,        \* per thread: the request it serves
    tool,       \* per thread: what has_flatpak() found: unprobed, present, absent
    app,        \* per thread: app_id, the handler's local
    gate,       \* per thread: none, awaiting, approved, rejected
    prov,       \* per thread: the provider gui_confirm chose
    answer,     \* per thread: the operator's answer
    cmds,       \* per thread: the argument lists handed to run_cmd and Popen
    proc,       \* per thread: what the install/update subprocess left
    outs,       \* per thread: what the remotes, list and info subprocesses left
    genv,       \* per thread: what the probes of gui_confirm found
    meant,      \* per thread: the thread whose prompt the operator was answering
    child,      \* per thread: the application launched: none, running, exited, failed
    host,       \* the machine: tool on PATH, flathub a user remote, repo reachable
    log,        \* the ensure_flathub_user() calls and host changes so far
    resp        \* per thread: the response sent

vars ==
    << token, pc, req, tool, app, gate, prov, answer, cmds, proc, outs, genv, meant,
       child, host, log, resp >>

---------------------------------------------------------------------------
run_cmd_swapped(p) == [code |-> p.code, out |-> Strip(p.err), err |-> Strip(p.out)]

\* run_cmd: the exit code and both streams, stripped.
run_cmd(p) == [code |-> p.code, out |-> Strip(p.out), err |-> Strip(p.err)]

has_flatpak_always(found) == TRUE

\* has_flatpak(), given whether shutil.which finds the tool.
has_flatpak(found) == found

ensure_flathub_never(found) == <<>>

\* ensure_flathub_user: the argument lists it hands to run_cmd.
ensure_flathub_user(found) == IF ~has_flatpak(found) THEN <<>> ELSE << RemoteAddArgv >>

is_flatpak_installed_always(app_id, found, p) == TRUE

\* is_flatpak_installed(app_id), given what `flatpak info` leaves.
is_flatpak_installed(app_id, found, p) ==
    IF ~has_flatpak(found) THEN FALSE ELSE run_cmd(p).code = 0

launch_flatpak_blind(app_id, spawn) == [ok |-> TRUE, err |-> <<>>]

\* launch_flatpak(app_id), given how Popen ends: (ok, str(e)).
launch_flatpak(app_id, spawn) ==
    IF spawn.started THEN [ok |-> TRUE, err |-> <<>>] ELSE [ok |-> FALSE, err |-> spawn.exc]

StartsWith(s, prefix) ==
    Len(s) >= Len(prefix) /\ SubSeq(s, 1, Len(prefix)) = prefix

\* flathub_configured(), given what the remotes query leaves.
flathub_configured(found, p) ==
    IF ~has_flatpak(found) THEN FALSE
    ELSE IF run_cmd(p).code # 0 THEN FALSE
    ELSE LET lines == Split(run_cmd(p).out, "\n") IN
         \E i \in 1..Len(lines) :
            \/ Strip(lines[i]) = Flathub
            \/ StartsWith(Strip(lines[i]), Flathub \o << " " >>)

\* The header tokens of list_flatpak_apps.
HeaderTokens ==
    { << "a", "p", "p", "l", "i", "c", "a", "t", "i", "o", "n" >>,
      << "a", "p", "p", "l", "i", "c", "a", "t", "i", "o", "n", " ", "i", "d" >> }

parse_line_cased(cols, line) ==
    LET parts == Split(line, "\t")
        Field(i) == IF i <= Len(parts) THEN parts[i] ELSE <<>>
    IN
    IF Strip(line) = <<>> THEN <<>>
    ELSE IF Strip(parts[1]) \in HeaderTokens THEN <<>>
    ELSE IF Strip(Field(1)) = <<>> THEN <<>>
    ELSE << [ id |-> Strip(Field(1)),
              name |-> Strip(Field(2)),
              version |-> Strip(Field(3)),
              branch |-> Strip(Field(4)),
              origin |-> Strip(Field(5)),
              installation |-> IF \E k \in 1..Len(cols) : cols[k] = "installation"
                               THEN Strip(Field(6)) ELSE <<>> ] >>

\* One line of the listing: skip, or the record of its row.
parse_line(cols, line) ==
    LET parts == Split(line, "\t")
        Field(i) == IF i <= Len(parts) THEN parts[i] ELSE <<>>
    IN
    IF Strip(line) = <<>> THEN <<>>
    ELSE IF Lower(Strip(parts[1])) \in HeaderTokens THEN <<>>
    ELSE IF Strip(Field(1)) = <<>> THEN <<>>
    ELSE << [ id |-> Strip(Field(1)),
              name |-> Strip(Field(2)),
              version |-> Strip(Field(3)),
              branch |-> Strip(Field(4)),
              origin |-> Strip(Field(5)),
              installation |-> IF \E k \in 1..Len(cols) : cols[k] = "installation"
                               THEN Strip(Field(6)) ELSE <<>> ] >>

RECURSIVE parse_lines(_, _)
parse_lines(cols, lines) ==
    IF lines = <<>> THEN <<>>
    ELSE parse_line(cols, Head(lines)) \o parse_lines(cols, Tail(lines))

SortKeyCased(a) == IF a.name # <<>> THEN a.name ELSE a.id

\* The sort key of a record.
SortKey(a) == Lower(IF a.name # <<>> THEN a.name ELSE a.id)

RECURSIVE Insert(_, _)
Insert(sorted, a) ==
    IF sorted = <<>> THEN << a >>
    ELSE IF TextLE(SortKey(Head(sorted)), SortKey(a))
         THEN << Head(sorted) >> \o Insert(Tail(sorted), a)
         ELSE << a >> \o sorted

\* list.sort(key=...), a stable sort.
RECURSIVE Sorted(_)
Sorted(apps) ==
    IF apps = <<>> THEN <<>>
    ELSE Insert(Sorted(SubSeq(apps, 1, Len(apps) - 1)), apps[Len(apps)])

\* list_flatpak_apps, given what the listing command leaves for each column
\* set it is tried with: the records, or the RuntimeError's text, and the
\* argument lists handed to run_cmd.
RECURSIVE list_loop_first(_, _, _, _)
list_loop_first(sets, results, last_err, ran) ==
    IF sets = <<>> THEN
        [ raised |-> TRUE, apps |-> <<>>, ran |-> ran,
          error |-> << "Could not list flatpaks: " >>
                        \o (IF last_err # <<>> THEN last_err ELSE << "unknown error" >>) ]
    ELSE LET res == run_cmd(Head(results)) IN
         IF res.code # 0
         THEN list_loop_first(Tail(sets), Tail(results),
                        IF last_err # <<>> THEN last_err
                        ELSE IF res.err # <<>> THEN res.err ELSE res.out,
                        ran \o << ListArgv(Head(sets)) >>)
         ELSE [ raised |-> FALSE,
                apps |-> Sorted(parse_lines(Head(sets), Split(res.out, "\n"))),
                ran |-> ran \o << ListArgv(Head(sets)) >>,
                error |-> <<>> ]

RECURSIVE list_loop(_, _, _, _)
list_loop(sets, results, last_err, ran) ==
    IF sets = <<>> THEN
        [ raised |-> TRUE, apps |-> <<>>, ran |-> ran,
          error |-> << "Could not list flatpaks: " >>
                        \o (IF last_err # <<>> THEN last_err ELSE << "unknown error" >>) ]
    ELSE LET res == run_cmd(Head(results)) IN
         IF res.code # 0
         THEN list_loop(Tail(sets), Tail(results),
                        IF res.err # <<>> THEN res.err ELSE res.out,
                        ran \o << ListArgv(Head(sets)) >>)
         ELSE [ raised |-> FALSE,
                apps |-> Sorted(parse_lines(Head(sets), Split(res.out, "\n"))),
                ran |-> ran \o << ListArgv(Head(sets)) >>,
                error |-> <<>> ]

list_flatpak_apps(found, results) ==
    IF ~has_flatpak(found)
    THEN [raised |-> FALSE, apps |-> <<>>, ran |-> <<>>, error |-> <<>>]
    ELSE list_loop(columns_sets, results, <<>>, <<>>)

\* _send_json(code, payload)
send_json(code, payload) == [status |-> code, payload |-> payload]

\* _read_json: raised (int() of a non-numeric Content-Length), or the value
\* parsed; no body and an unparseable body both give {}.
read_json(body) ==
    [ raised |-> body.kind = "badlength",
      isDict |-> body.kind # "array",
      appId |-> IF body.kind = "appId" THEN body.appId ELSE <<>> ]

app_id_unstripped(payload) == payload.appId

\* str(payload.get("appId", "")).strip()
app_id_of(payload) == Strip(payload.appId)

AuthorizedAlways(tok) == TRUE

\* token != self.server.token
Authorized(tok) == tok = token

ProviderAnyZenity(env) ==
    IF env.display /\ env.kdialog THEN "kdialog"
    ELSE IF env.zenity THEN "zenity"
    ELSE "console"

\* gui_confirm: the provider its probes select.
Provider(env) ==
    IF env.display /\ env.kdialog THEN "kdialog"
    ELSE IF env.display /\ env.zenity THEN "zenity"
    ELSE "console"

Providers == { Provider(env) : env \in GateEnvs }

ProviderArgv(p, message) ==
    IF p = "kdialog" THEN << KdialogArgv(message) >>
    ELSE IF p = "zenity" THEN << ZenityArgv(message) >>
    ELSE <<>>

Answers(p) == IF p = "console" THEN ConsoleAnswers ELSE DialogAnswers

gui_confirm_exact(p, ans) ==
    IF p = "console"
    THEN Strip(ans.line) = <<"Y", "E", "S">>
    ELSE ans.exit = 0

\* gui_confirm's return value.
gui_confirm(p, ans) ==
    IF p = "console"
    THEN Upper(Strip(ans.line)) = <<"Y", "E", "S">>
    ELSE ans.exit = 0

CancelledNever(confirmed) == FALSE

\* if not gui_confirm(...): respond "User cancelled" and return
Cancelled(confirmed) == ~confirmed

\* The response to a finished install (with_id) or update command.
result_response(res, with_id, app_id) ==
    send_json(IF res.code = 0 THEN 200 ELSE 500,
        IF with_id
        THEN [ok |-> res.code = 0, appId |-> app_id, stdout |-> res.out, stderr |-> res.err]
        ELSE [ok |-> res.code = 0, stdout |-> res.out, stderr |-> res.err])

status_payload_swapped(flatpak, flathub) ==
    [ok |-> TRUE, flatpak |-> flathub, flathub |-> flatpak, version |-> "all-in-one"]

\* The payload of /status.
status_payload(flatpak, flathub) ==
    [ok |-> TRUE, flatpak |-> flatpak, flathub |-> flathub, version |-> "all-in-one"]

\* The fixed responses of do_GET and do_POST.
BadToken == send_json(401, [ok |-> FALSE, error |-> <<"Bad token">>])

NotFoundWrongStatus == send_json(400, [ok |-> FALSE, error |-> <<"Not found">>])

NotFound == send_json(404, [ok |-> FALSE, error |-> <<"Not found">>])

InvalidAppId == send_json(400, [ok |-> FALSE, error |-> <<"Invalid appId">>])

NoFlatpakBare == send_json(500, [ok |-> FALSE])

NoFlatpak == send_json(500, [ok |-> FALSE, error |-> <<"flatpak not installed">>])

UserCancelledHard == send_json(500, [ok |-> FALSE, error |-> <<"User cancelled">>])

UserCancelled == send_json(200, [ok |-> FALSE, error |-> <<"User cancelled">>])

AppNotInstalled == send_json(400, [ok |-> FALSE, error |-> <<"App not installed">>])

---------------------------------------------------------------------------
Init ==
    /\ token = "tok"
    /\ pc = [r \in Threads |-> "idle"]
    /\ req = [r \in Threads |-> NoReq]
    /\ tool = [r \in Threads |-> "unprobed"]
    /\ app = [r \in Threads |-> <<>>]
    /\ gate = [r \in Threads |-> "none"]
    /\ prov = [r \in Threads |-> "none"]
    /\ answer = [r \in Threads |-> NoAnswer]
    /\ cmds = [r \in Threads |-> <<>>]
    /\ proc = [r \in Threads |-> NoProc]
    /\ outs = [r \in Threads |-> <<>>]
    /\ genv = [r \in Threads |-> NoEnv]
    /\ meant = [r \in Threads |-> 0]
    /\ child = [r \in Threads |-> "none"]
    /\ host = NoHost
    /\ log = <<>>
    /\ resp = [r \in Threads |-> NoResp]

FreeSerial(r) ==
    /\ pc[r] = "idle" /\ \A q \in Threads : q < r => pc[q] # "idle"
    /\ \A q \in Threads : pc[q] # "confirm"

\* Thread r is free to take a request; the free thread of lowest number does.
Free(r) == pc[r] = "idle" /\ \A q \in Threads : q < r => pc[q] # "idle"

\* Thread r takes request rq off the listening socket.
Accept(r, rq) ==
    /\ req' = [req EXCEPT ![r] = rq]
    /\ UNCHANGED << token, answer, proc, genv, meant, host, log >>

\* The handler sends rsp and returns, having handed ran to run_cmd/Popen.
Reply(r, rsp, ran) ==
    /\ pc' = [pc EXCEPT ![r] = "done"]
    /\ resp' = [resp EXCEPT ![r] = rsp]
    /\ cmds' = [cmds EXCEPT ![r] = @ \o ran]

\* An exception leaves the handler: the thread ends and nothing is sent.
Raise(r, ran) ==
    /\ pc' = [pc EXCEPT ![r] = "crashed"]
    /\ cmds' = [cmds EXCEPT ![r] = @ \o ran]
    /\ UNCHANGED resp

\* The handler's query subprocesses (remotes, list, info) left results.
Left(r, results) == outs' = [outs EXCEPT ![r] = results]

Probed(r, found) == tool' = [tool EXCEPT ![r] = IF found THEN "present" ELSE "absent"]

\* gui_confirm(title, message) is entered: it probes, shows its prompt and
\* blocks the thread until the operator answers.
EnterGate(r, ran, message) ==
    \E p \in Providers :
        /\ pc' = [pc EXCEPT ![r] = "confirm"]
        /\ gate' = [gate EXCEPT ![r] = "awaiting"]
        /\ prov' = [prov EXCEPT ![r] = p]
        /\ cmds' = [cmds EXCEPT ![r] = @ \o ran \o ProviderArgv(p, message)]
        /\ UNCHANGED resp

\* do_POST with a token that is not the server's.
PostUnauthorized(r) ==
    /\ Free(r)
    /\ \E path \in Paths, tok \in Tokens :
       \E body \in UnreadBodies :
        /\ ~Authorized(tok)
        /\ Accept(r, [method |-> "POST", path |-> path, tok |-> tok, body |-> body])
        /\ Reply(r, BadToken, <<>>)
        /\ UNCHANGED << tool, app, gate, prov, outs, child >>

\* do_POST, /install and /flatpak/run, up to the has_flatpak() probe.
PostRejected(r) ==
    /\ Free(r)
    /\ \E path \in {"/install", "/flatpak/run"}, tok \in Tokens :
       \E body \in Bodies :
        LET payload == read_json(body)
            app_id == app_id_of(payload)
        IN
        /\ Authorized(tok)
        /\ Accept(r, [method |-> "POST", path |-> path, tok |-> tok, body |-> body])
        /\ UNCHANGED << gate, prov, outs, child >>
        /\ IF payload.raised \/ ~payload.isDict THEN
              \* ValueError from int(), AttributeError from payload.get
              /\ Raise(r, <<>>)
              /\ UNCHANGED << tool, app >>
           ELSE
              /\ app' = [app EXCEPT ![r] = app_id]
              /\ IF ~APPID_RE_match(app_id) THEN
                    /\ Reply(r, InvalidAppId, <<>>)
                    /\ UNCHANGED tool
                 ELSE \E found \in BOOLEAN :
                    /\ ~has_flatpak(found)
                    /\ Probed(r, found)
                    /\ Reply(r, NoFlatpak, <<>>)

\* do_POST, /install with a valid appId and the tool present, up to the prompt.
PostInstall(r) ==
    /\ Free(r)
    /\ \E tok \in Tokens, found \in BOOLEAN :
       \E body \in Bodies :
        LET payload == read_json(body)
            app_id == app_id_of(payload)
        IN
        /\ Authorized(tok)
        /\ ~payload.raised /\ payload.isDict
        /\ APPID_RE_match(app_id)
        /\ has_flatpak(found)
        /\ Accept(r, [method |-> "POST", path |-> "/install", tok |-> tok, body |-> body])
        /\ app' = [app EXCEPT ![r] = app_id]
        /\ Probed(r, found)
        /\ UNCHANGED << outs, child >>
        /\ EnterGate(r, ensure_flathub_user(found), InstallMessage(app_id))

\* do_POST, /update, up to its response or the prompt.
PostUpdate(r) ==
    /\ Free(r)
    /\ \E tok \in Tokens, found \in BOOLEAN :
       \E body \in UnreadBodies :
        /\ Authorized(tok)
        /\ Accept(r, [method |-> "POST", path |-> "/update", tok |-> tok, body |-> body])
        /\ Probed(r, found)
        /\ UNCHANGED << app, outs, child >>
        /\ IF ~has_flatpak(found) THEN
              /\ Reply(r, NoFlatpak, <<>>)
              /\ UNCHANGED << gate, prov >>
           ELSE
              EnterGate(r, ensure_flathub_user(found), UpdateMessage)

\* do_POST, /flatpak/run with a valid appId and the tool present.
PostRun(r) ==
    /\ Free(r)
    /\ \E tok \in Tokens, found \in BOOLEAN :
       \E body \in Bodies :
        LET payload == read_json(body)
            app_id == app_id_of(payload)
        IN
        /\ Authorized(tok)
        /\ ~payload.raised /\ payload.isDict
        /\ APPID_RE_match(app_id)
        /\ has_flatpak(found)
        /\ Accept(r, [method |-> "POST", path |-> "/flatpak/run", tok |-> tok, body |-> body])
        /\ app' = [app EXCEPT ![r] = app_id]
        /\ Probed(r, found)
        /\ UNCHANGED << gate, prov >>
        /\ \E info \in ProcResults, spawn \in LaunchOutcomes :
           /\ Left(r, << info >>)
           /\ child' = [child EXCEPT ![r] =
                 IF ~is_flatpak_installed(app_id, found, info) THEN "none"
                 ELSE IF spawn.started THEN "running" ELSE "failed"]
           /\ IF ~is_flatpak_installed(app_id, found, info) THEN
                  Reply(r, AppNotInstalled, << InfoArgv(app_id) >>)
              ELSE IF launch_flatpak(app_id, spawn).ok THEN
                  Reply(r, send_json(200, [ok |-> TRUE, appId |-> app_id]),
                        << InfoArgv(app_id), RunArgv(app_id) >>)
              ELSE
                  Reply(r, send_json(500, [ok |-> FALSE,
                            error |-> IF launch_flatpak(app_id, spawn).err # <<>>
                                      THEN launch_flatpak(app_id, spawn).err
                                      ELSE << "Failed to launch" >>]),
                        << InfoArgv(app_id), RunArgv(app_id) >>)

\* do_POST, any other path.
PostNotFound(r) ==
    /\ Free(r)
    /\ \E path \in Paths \ {"/install", "/update", "/flatpak/run"}, tok \in Tokens :
       \E body \in UnreadBodies :
        /\ Authorized(tok)
        /\ Accept(r, [method |-> "POST", path |-> path, tok |-> tok, body |-> body])
        /\ Reply(r, NotFound, <<>>)
        /\ UNCHANGED << tool, app, gate, prov, outs, child >>

do_POST(r) ==
    \/ PostUnauthorized(r)
    \/ PostRejected(r)
    \/ PostInstall(r)
    \/ PostUpdate(r)
    \/ PostRun(r)
    \/ PostNotFound(r)

\* do_GET, / and /index.html: the page, with the token baked in.
GetIndex(r) ==
    /\ Free(r)
    /\ \E path \in {"/", "/index.html"}, tok \in Tokens :
        /\ Accept(r, [method |-> "GET", path |-> path, tok |-> tok, body |-> Body("empty", <<>>)])
        /\ Reply(r, [status |-> 200, payload |-> [html |-> token]], <<>>)
        /\ UNCHANGED << tool, app, gate, prov, outs, child >>

\* do_GET, /status.
GetStatus(r) ==
    /\ Free(r)
    /\ \E tok \in Tokens, found \in BOOLEAN :
       \E p \in IF found THEN RemotesResults ELSE {NoProc} :
        /\ Accept(r, [method |-> "GET", path |-> "/status", tok |-> tok, body |-> Body("empty", <<>>)])
        /\ Probed(r, found)
        /\ Left(r, IF has_flatpak(found) THEN << p >> ELSE <<>>)
        /\ Reply(r, send_json(200, status_payload(has_flatpak(found),
                                                    flathub_configured(found, p))),
                 IF has_flatpak(found) THEN << RemotesArgv >> ELSE <<>>)
        /\ UNCHANGED << app, gate, prov, child >>

\* do_GET, /flatpak/list.
GetList(r) ==
    /\ Free(r)
    /\ \E tok \in Tokens :
        /\ Accept(r, [method |-> "GET", path |-> "/flatpak/list", tok |-> tok, body |-> Body("empty", <<>>)])
        /\ UNCHANGED << app, gate, prov, child >>
        /\ IF ~Authorized(tok) THEN
              /\ Reply(r, BadToken, <<>>)
              /\ UNCHANGED << tool, outs >>
           ELSE \E found \in BOOLEAN :
              /\ Probed(r, found)
              /\ IF ~has_flatpak(found) THEN
                    /\ Reply(r, NoFlatpak, <<>>)
                    /\ UNCHANGED outs
                 ELSE \E first \in ListResults :
                      \E second \in IF first.code = 0 THEN {first} ELSE ListResults :
                        LET got == list_flatpak_apps(found, << first, second >>) IN
                        /\ Left(r, SubSeq(<< first, second >>, 1, Len(got.ran)))
                        /\ IF got.raised
                           THEN Reply(r, send_json(500, [ok |-> FALSE, error |-> got.error]), got.ran)
                           ELSE Reply(r, send_json(200, [ok |-> TRUE, apps |-> got.apps]), got.ran)

\* do_GET, any other path.
GetNotFound(r) ==
    /\ Free(r)
    /\ \E path \in Paths \ {"/", "/index.html", "/status", "/flatpak/list"}, tok \in Tokens :
        /\ Accept(r, [method |-> "GET", path |-> path, tok |-> tok, body |-> Body("empty", <<>>)])
        /\ Reply(r, NotFound, <<>>)
        /\ UNCHANGED << tool, app, gate, prov, outs, child >>

do_GET(r) ==
    \/ GetIndex(r)
    \/ GetStatus(r)
    \/ GetList(r)
    \/ GetNotFound(r)

\* The prompts an answer read by thread r can have been meant for: a dialog
\* is the request's own process; the console prompts all read sys.stdin, so
\* the line thread r reads is the operator's answer to any pending one.
Prompted(r) ==
    IF prov[r] = "console"
    THEN {q \in Threads : pc[q] = "confirm" /\ prov[q] = "console"}
    ELSE {r}

DecideReask(r) ==
    /\ pc[r] = "confirm" \/ (pc[r] = "done" /\ gate[r] = "rejected")
    /\ \E ans \in Answers(prov[r]), started \in BOOLEAN :
        LET confirmed == gui_confirm(prov[r], ans)
            argv == IF req[r].path = "/install" THEN InstallArgv(app[r]) ELSE UpdateArgv
        IN
        /\ answer' = [answer EXCEPT ![r] = ans]
        /\ meant' = [meant EXCEPT ![r] = r]
        /\ gate' = [gate EXCEPT ![r] = IF confirmed THEN "approved" ELSE "rejected"]
        /\ IF Cancelled(confirmed) THEN
              Reply(r, UserCancelled, <<>>)
           ELSE IF ~started THEN
              Raise(r, << argv >>)
           ELSE
              /\ pc' = [pc EXCEPT ![r] = "running"]
              /\ cmds' = [cmds EXCEPT ![r] = @ \o << argv >>]
              /\ UNCHANGED resp
    /\ UNCHANGED << token, req, tool, app, prov, proc, outs, genv, child, host, log >>

DecideSerial(r) ==
    /\ pc[r] = "confirm"
    /\ \A q \in Threads : pc[q] # "running"
    /\ \E ans \in Answers(prov[r]), started \in BOOLEAN, q \in Prompted(r) :
        LET confirmed == gui_confirm(prov[r], ans)
            argv == IF req[r].path = "/install" THEN InstallArgv(app[r]) ELSE UpdateArgv
        IN
        /\ answer' = [answer EXCEPT ![r] = ans]
        /\ meant' = [meant EXCEPT ![r] = q]
        /\ gate' = [gate EXCEPT ![r] = IF confirmed THEN "approved" ELSE "rejected"]
        /\ IF Cancelled(confirmed) THEN
              Reply(r, UserCancelled, <<>>)
           ELSE IF ~started THEN
              Raise(r, << argv >>)
           ELSE
              /\ pc' = [pc EXCEPT ![r] = "running"]
              /\ cmds' = [cmds EXCEPT ![r] = @ \o << argv >>]
              /\ UNCHANGED resp
    /\ UNCHANGED << token, req, tool, app, prov, proc, outs, genv, child, host, log >>

\* The operator answers the prompt of thread r: gui_confirm returns, and the
\* handler answers "User cancelled" or starts the install/update command.
Decide(r) ==
    /\ pc[r] = "confirm"
    /\ \E ans \in Answers(prov[r]), started \in BOOLEAN, q \in Prompted(r) :
        LET confirmed == gui_confirm(prov[r], ans)
            argv == IF req[r].path = "/install" THEN InstallArgv(app[r]) ELSE UpdateArgv
        IN
        /\ answer' = [answer EXCEPT ![r] = ans]
        /\ meant' = [meant EXCEPT ![r] = q]
        /\ gate' = [gate EXCEPT ![r] = IF confirmed THEN "approved" ELSE "rejected"]
        /\ IF Cancelled(confirmed) THEN
              Reply(r, UserCancelled, <<>>)
           ELSE IF ~started THEN
              \* subprocess.run cannot start the tool: FileNotFoundError
              Raise(r, << argv >>)
           ELSE
              /\ pc' = [pc EXCEPT ![r] = "running"]
              /\ cmds' = [cmds EXCEPT ![r] = @ \o << argv >>]
              /\ UNCHANGED resp
    /\ UNCHANGED << token, req, tool, app, prov, proc, outs, genv, child, host, log >>

\* The install/update subprocess of thread r exits: run_cmd returns and the
\* handler sends its result.
CmdExit(r) ==
    /\ pc[r] = "running"
    /\ \E p \in ProcResults :
        /\ proc' = [proc EXCEPT ![r] = p]
        /\ pc' = [pc EXCEPT ![r] = "done"]
        /\ resp' = [resp EXCEPT ![r] =
              result_response(run_cmd(p), req[r].path = "/install", app[r])]
    /\ UNCHANGED << token, req, tool, app, gate, prov, answer, cmds, outs, genv, meant,
                    child, host, log >>

\* The application thread r launched, detached from the server, exits.
AppExit(r) ==
    /\ child[r] = "running"
    /\ child' = [child EXCEPT ![r] = "exited"]
    /\ UNCHANGED << token, pc, req, tool, app, gate, prov, answer, cmds, proc, outs, genv,
                    meant, host, log, resp >>

Next ==
    \/ \E r \in Threads : do_GET(r)
    \/ \E r \in Threads : do_POST(r)
    \/ \E r \in Threads : Decide(r)
    \/ \E r \in Threads : CmdExit(r)
    \/ \E r \in Threads : AppExit(r)

Spec == Init /\ [][Next]_vars

---------------------------------------------------------------------------
\* The Confirmation Gate with what its probes found: gui_confirm called for
\* an /install or an /update that passed its checks.
GateCall(r) ==
    /\ Free(r)
    /\ \E env \in GateEnvs, path \in {"/install", "/update"} :
        LET app_id == IF path = "/install" THEN << "a" >> ELSE <<>>
            message == IF path = "/install" THEN InstallMessage(app_id) ELSE UpdateMessage
        IN
        /\ req' = [req EXCEPT ![r] = [ method |-> "POST", path |-> path, tok |-> token,
                                       body |-> Body("appId", << "a" >>) ]]
        /\ app' = [app EXCEPT ![r] = app_id]
        /\ tool' = [tool EXCEPT ![r] = "present"]
        /\ genv' = [genv EXCEPT ![r] = env]
        /\ pc' = [pc EXCEPT ![r] = "confirm"]
        /\ gate' = [gate EXCEPT ![r] = "awaiting"]
        /\ prov' = [prov EXCEPT ![r] = Provider(env)]
        /\ cmds' = [cmds EXCEPT ![r] =
              @ \o ensure_flathub_user(TRUE) \o ProviderArgv(Provider(env), message)]
    /\ UNCHANGED << token, answer, proc, outs, meant, child, host, log, resp >>

NextGate ==
    \/ \E r \in Threads : GateCall(r)
    \/ \E r \in Threads : Decide(r)
    \/ \E r \in Threads : CmdExit(r)

SpecGate == Init /\ [][NextGate]_vars

---------------------------------------------------------------------------
\* The channel on the machine, through the calls of ensure_flathub_user():
\* main() makes one at start-up and /install and /update one per request.

\* What flatpak --user remote-add does on machine h when run with argv: with
\* the channel present it changes nothing, and reports an error unless argv
\* carries --if-not-exists; with the channel missing it adds it if the
\* repository can be fetched and fails otherwise.  Without the tool on PATH
\* subprocess.run raises.
remote_add(h, argv) ==
    IF ~h.tool THEN [raised |-> TRUE, code |-> -1, channel |-> h.channel]
    ELSE IF h.channel
         THEN [ raised |-> FALSE,
                code |-> IF \E i \in 1..Len(argv) : argv[i] = K("--if-not-exists")
                         THEN 0 ELSE 1,
                channel |-> TRUE ]
    ELSE IF h.online THEN [raised |-> FALSE, code |-> 0, channel |-> TRUE]
    ELSE [raised |-> FALSE, code |-> 1, channel |-> FALSE]

\* The run_cmd calls of one ensure_flathub_user() on machine h, in order.
RECURSIVE run_all(_, _)
run_all(h, argvs) ==
    IF argvs = <<>> THEN [raised |-> FALSE, code |-> -1, channel |-> h.channel]
    ELSE LET one == remote_add(h, Head(argvs)) IN
         IF one.raised \/ Tail(argvs) = <<>> THEN one
         ELSE run_all([h EXCEPT !.channel = one.channel], Tail(argvs))

InitChannel ==
    /\ token = "tok"
    /\ pc = [r \in Threads |-> "idle"]
    /\ req = [r \in Threads |-> NoReq]
    /\ tool = [r \in Threads |-> "unprobed"]
    /\ app = [r \in Threads |-> <<>>]
    /\ gate = [r \in Threads |-> "none"]
    /\ prov = [r \in Threads |-> "none"]
    /\ answer = [r \in Threads |-> NoAnswer]
    /\ cmds = [r \in Threads |-> <<>>]
    /\ proc = [r \in Threads |-> NoProc]
    /\ outs = [r \in Threads |-> <<>>]
    /\ genv = [r \in Threads |-> NoEnv]
    /\ meant = [r \in Threads |-> 0]
    /\ child = [r \in Threads |-> "none"]
    /\ resp = [r \in Threads |-> NoResp]
    /\ host \in Hosts
    /\ log = <<>>

EnsureCall ==
    /\ Len(log) < MaxLog
    /\ LET ran == ensure_flathub_user(host.tool)
           got == run_all(host, ran)
       IN
       /\ host' = [host EXCEPT !.channel = got.channel]
       /\ log' = Append(log, [ kind |-> "call", ran |-> ran, raised |-> got.raised,
                               code |-> got.code, before |-> host.channel,
                               after |-> got.channel ])
    /\ UNCHANGED << token, pc, req, tool, app, gate, prov, answer, cmds, proc, outs, genv,
                    meant, child, resp >>

\* The machine changes between calls: the tool is installed or removed, the
\* operator adds or deletes the channel, the network comes or goes.
HostChange ==
    /\ Len(log) < MaxLog
    /\ \E h \in Hosts :
        /\ Cardinality({f \in {"tool", "channel", "online"} : h[f] # host[f]}) = 1
        /\ host' = h
        /\ log' = Append(log, [ kind |-> "host", ran |-> <<>>, raised |-> FALSE,
                                code |-> -1, before |-> host.channel,
                                after |-> h.channel ])
    /\ UNCHANGED << token, pc, req, tool, app, gate, prov, answer, cmds, proc, outs, genv,
                    meant, child, resp >>

NextChannel == EnsureCall \/ HostChange

SpecChannel == InitChannel /\ [][NextChannel]_vars

---------------------------------------------------------------------------
\* Vocabulary of the properties.

\* Thread r has taken a request.
Accepted(r) == pc[r] # "idle"

\* The handler of thread r has returned or has been left by an exception.
Ended(r) == pc[r] \in {"done", "crashed"}

ProtectedPaths == {"/flatpak/list", "/install", "/update", "/flatpak/run"}

\* The endpoints of the wire protocol.
GetEndpoints == {"/", "/index.html", "/status", "/flatpak/list"}
PostEndpoints == {"/install", "/update", "/flatpak/run"}

\* The argument list runs the package tool / its install or update command.
IsToolCmd(argv) == argv[1] = K("flatpak")
IsMutatingCmd(argv) == IsToolCmd(argv) /\ \E i \in 1..Len(argv) : argv[i] \in {K("install"), K("update")}

ToolCmds(r) == SelectSeq(cmds[r], IsToolCmd)
RanMutating(r) == \E i \in 1..Len(cmds[r]) : IsMutatingCmd(cmds[r][i])

\* The response is a JSON object whose ok is false.
Failure(rsp) == "ok" \in DOMAIN rsp.payload /\ rsp.payload.ok = FALSE

\* The rejection of an identifier: status 400, ok false, error "Invalid appId".
IsInvalidAppId400(rsp) ==
    /\ rsp.status = 400
    /\ rsp.payload = [ok |-> FALSE, error |-> <<"Invalid appId">>]

\* The 404 response of the interface: status 404, ok false, error "Not found".
IsNotFound404(rsp) ==
    /\ rsp.status = 404
    /\ rsp.payload = [ok |-> FALSE, error |-> <<"Not found">>]

\* The 401 response of the interface: status 401, ok false, error "Bad token".
IsBadToken401(rsp) ==
    /\ rsp.status = 401
    /\ rsp.payload = [ok |-> FALSE, error |-> <<"Bad token">>]

---------------------------------------------------------------------------
\* C1 (as stated): every GET or POST request to /flatpak/list, /install,
\* /update or /flatpak/run whose token is absent or wrong is answered exactly
\* 401 {ok:false, error:"Bad token"}, with no subprocess and no confirmation.
C1_AsStated ==
    \A r \in Threads :
        Accepted(r) /\ req[r].path \in ProtectedPaths /\ req[r].tok # token
            => /\ IsBadToken401(resp[r])
               /\ cmds[r] = <<>>
               /\ gate[r] = "none"

\* C1 (amended): a POST to one of the four paths, and a GET to /flatpak/list,
\* whose token is absent or wrong is answered exactly 401 Bad token; a GET to
\* /install, /update or /flatpak/run is answered 404 Not found; in both cases
\* the handler has returned, no subprocess was invoked and no confirmation
\* was requested.
C1_BadTokenRejected ==
    \A r \in Threads :
        Accepted(r) /\ req[r].path \in ProtectedPaths /\ req[r].tok # token
            => /\ pc[r] = "done"
               /\ IF req[r].method = "POST" \/ req[r].path = "/flatpak/list"
                  THEN IsBadToken401(resp[r]) ELSE IsNotFound404(resp[r])
               /\ cmds[r] = <<>>
               /\ gate[r] = "none"

C1_Witness ==
    \E r, q \in Threads :
        /\ req[r] = [method |-> "POST", path |-> "/install", tok |-> "",
                     body |-> Body("appId", <<"a">>)]
        /\ IsBadToken401(resp[r])
        /\ req[q].method = "GET" /\ req[q].path = "/flatpak/list" /\ req[q].tok = "bad"
        /\ IsBadToken401(resp[q])

\* C2 (as stated): an appId S that does not match the grammar, sent to
\* /install or /flatpak/run with the correct token, is rejected with
\* 400 Invalid appId and nothing is handed to the Command Runner.
C2_AsStated ==
    \A r \in Threads :
        ( /\ Accepted(r) /\ req[r].method = "POST" /\ req[r].tok = token
          /\ req[r].path \in {"/install", "/flatpak/run"}
          /\ req[r].body.kind = "appId" /\ ~Grammar(req[r].body.appId) )
            => IsInvalidAppId400(resp[r]) /\ cmds[r] = <<>>

\* C2 (amended): an appId S that, once stripped of surrounding whitespace,
\* does not match the grammar is rejected with 400 Invalid appId and nothing
\* is handed to the Command Runner.
C2_InvalidRejected ==
    \A r \in Threads :
        ( /\ Accepted(r) /\ req[r].method = "POST" /\ req[r].tok = token
          /\ req[r].path \in {"/install", "/flatpak/run"}
          /\ req[r].body.kind = "appId" /\ ~Grammar(Strip(req[r].body.appId)) )
            => pc[r] = "done" /\ IsInvalidAppId400(resp[r]) /\ cmds[r] = <<>>

C2_Witness ==
    \E r \in Threads :
        /\ req[r] = [method |-> "POST", path |-> "/install", tok |-> token,
                     body |-> Body("appId", <<"-", "a">>)]
        /\ IsInvalidAppId400(resp[r])
        /\ cmds[r] = <<>>

\* C3 (as stated): every argument of every argument list handed to run_cmd or
\* Popen is a fixed constant or a package identifier that matches the grammar.
C3_AsStated ==
    \A r \in Threads : \A i \in 1..Len(cmds[r]) : \A j \in 1..Len(cmds[r][i]) :
        LET arg == cmds[r][i][j] IN
        \/ arg.kind = "const"
        \/ arg.kind = "id" /\ Grammar(arg.id)

\* C3 (amended): every argument is a fixed constant, a package identifier
\* that matches the grammar, or the message of the confirmation dialog, which
\* is fixed text around a package identifier that matches the grammar; the
\* identifier is the one validated for the request.
C3_ArgsAreSafe ==
    \A r \in Threads : \A i \in 1..Len(cmds[r]) : \A j \in 1..Len(cmds[r][i]) :
        LET argv == cmds[r][i]
            arg == argv[j]
        IN
        \/ arg.kind = "const"
        \/ arg.kind = "id" /\ Grammar(arg.id) /\ arg.id = app[r]
        \/ /\ arg.kind = "msg" /\ Grammar(arg.id) /\ arg.id = app[r]
           /\ argv[1] \in {K("kdialog"), K("zenity")}
           /\ j = Len(argv)
           /\ arg = InstallMessage(arg.id)

C3_Witness ==
    \E r \in Threads :
        /\ req[r].body = Body("appId", <<"a", "\n">>)
        /\ pc[r] = "running"
        /\ cmds[r][Len(cmds[r])] = InstallArgv(<<"a">>)

\* C4: the install command and the update-all command are handed to the
\* Command Runner for a request only once that request's gate is APPROVED:
\* never while it is AWAITING_DECISION, never after REJECTED.
C4_OnlyAfterApproval ==
    \A r \in Threads :
        /\ RanMutating(r) => gate[r] = "approved"
        /\ pc[r] = "running" => gate[r] = "approved"
        /\ gate[r] = "awaiting" <=> pc[r] = "confirm"

C4_Witness ==
    \E r, q \in Threads :
        /\ pc[r] = "running" /\ gate[r] = "approved"
        /\ cmds[r][Len(cmds[r])] = InstallArgv(app[r])
        /\ pc[q] = "running" /\ gate[q] = "approved"
        /\ cmds[q][Len(cmds[q])] = UpdateArgv

\* C5 (as stated): when the operator rejects an /install, no package-tool
\* subprocess, the channel-adding command included, has run for the request.
C5_AsStated ==
    \A r \in Threads :
        req[r].path = "/install" /\ gate[r] = "rejected" => ToolCmds(r) = <<>>

\* C5 (amended): when the operator rejects an /install, the install command
\* has not run for the request; the one package-tool subprocess that has run
\* for it is the channel-adding command, which runs before the prompt.
C5_RejectedRunsOnlyRemoteAdd ==
    \A r \in Threads :
        req[r].path = "/install" /\ gate[r] = "rejected"
            => /\ ToolCmds(r) = << RemoteAddArgv >>
               /\ ~RanMutating(r)

C5_Witness ==
    \E r \in Threads :
        /\ req[r].path = "/install" /\ gate[r] = "rejected" /\ pc[r] = "done"
        /\ prov[r] = "console" /\ answer[r].line = <<"n", "o", "\n">>
        /\ cmds[r] = << RemoteAddArgv >>

\* C6: when the operator declines the confirmation of an /install or /update
\* request, the response is 200 with ok:false and the rejection reason in
\* error, and the install/update command is not run for the request.
C6_RejectionResponse ==
    \A r \in Threads :
        gate[r] = "rejected"
            => /\ pc[r] = "done"
               /\ req[r].path \in {"/install", "/update"}
               /\ resp[r].status = 200
               /\ resp[r].payload = [ok |-> FALSE, error |-> <<"User cancelled">>]
               /\ ~RanMutating(r)

C6_Witness ==
    \E r \in Threads :
        /\ req[r].path = "/update" /\ gate[r] = "rejected"
        /\ prov[r] = "kdialog" /\ answer[r].exit = 1
        /\ resp[r].status = 200 /\ Failure(resp[r])

\* C7 (as stated): every response whose ok is false carries an error string.
C7_AsStated ==
    \A r \in Threads :
        Failure(resp[r]) => "error" \in DOMAIN resp[r].payload

\* C7 (amended): every response whose ok is false carries a non-empty error
\* string, except the response to an approved install or update whose
\* subprocess exited nonzero: that one carries stdout and stderr and no error.
C7_FailuresCarryError ==
    \A r \in Threads :
        Failure(resp[r])
            => IF gate[r] = "approved"
               THEN /\ proc[r].code # 0
                    /\ "error" \notin DOMAIN resp[r].payload
                    /\ {"stdout", "stderr"} \subseteq DOMAIN resp[r].payload
               ELSE /\ "error" \in DOMAIN resp[r].payload
                    /\ resp[r].payload.error # <<>>

C7_Witness ==
    \E r, q \in Threads :
        /\ resp[r] = AppNotInstalled
        /\ gate[q] = "approved" /\ Failure(resp[q])
        /\ "error" \notin DOMAIN resp[q].payload

\* C8: when an approved install or update subprocess exits nonzero the
\* response is 500 with ok:false, when it exits 0 the response is 200 with
\* ok:true; its stderr and stdout fields are the captured streams (trimmed of
\* surrounding whitespace, as the Command Result is).
C8_ExitCodeDecidesStatus ==
    \A r \in Threads :
        proc[r] # NoProc
            => /\ pc[r] = "done" /\ gate[r] = "approved"
               /\ resp[r].status = (IF proc[r].code = 0 THEN 200 ELSE 500)
               /\ resp[r].payload.ok = (proc[r].code = 0)
               /\ resp[r].payload.stderr = Strip(proc[r].err)
               /\ resp[r].payload.stdout = Strip(proc[r].out)

C8_Witness ==
    \E r, q \in Threads :
        /\ proc[r] = [code |-> 1, out |-> <<>>, err |-> <<"/", "\n">>]
        /\ resp[r].status = 500 /\ resp[r].payload.stderr = <<"/">>
        /\ proc[q].code = 0 /\ resp[q].status = 200 /\ resp[q].payload.ok

\* C9: no exception leaves a request: whatever the body and whatever the
\* subprocess outcome, the handler ends by sending a response.
C9_NoExceptionEscapes ==
    \A r \in Threads : pc[r] # "crashed" /\ (Ended(r) => resp[r] # NoResp)

\* C10 (as stated): a request whose path is not a defined endpoint receives
\* 404 Not found, for GET and for POST, with or without the correct token.
C10_AsStated ==
    \A r \in Threads :
        Accepted(r) /\ req[r].path \notin GetEndpoints \cup PostEndpoints
            => IsNotFound404(resp[r])

\* C10 (amended): a GET whose path is not a GET endpoint receives 404 Not
\* found whatever its token; a POST whose path is not a POST endpoint receives
\* 404 Not found when it carries the correct token and 401 Bad token when it
\* does not, since do_POST checks the token before the path.
C10_UnknownPaths ==
    \A r \in Threads :
        /\ Accepted(r) /\ req[r].method = "GET" /\ req[r].path \notin GetEndpoints
              => pc[r] = "done" /\ IsNotFound404(resp[r])
        /\ Accepted(r) /\ req[r].method = "POST" /\ req[r].path \notin PostEndpoints
              => /\ pc[r] = "done"
                 /\ IF req[r].tok = token THEN IsNotFound404(resp[r]) ELSE IsBadToken401(resp[r])

C10_Witness ==
    \E r, q \in Threads :
        /\ req[r].method = "POST" /\ req[r].path = "/other" /\ req[r].tok = token
        /\ IsNotFound404(resp[r])
        /\ req[q].method = "GET" /\ req[q].path = "/install" /\ req[q].tok = ""
        /\ IsNotFound404(resp[q])

\* The capability error: status 500, ok false, error "flatpak not installed".
IsNoFlatpak500(rsp) ==
    /\ rsp.status = 500
    /\ rsp.payload = [ok |-> FALSE, error |-> <<"flatpak not installed">>]

\* C11: when has_flatpak() finds the package tool absent, every authenticated
\* list, install, update and run request (install and run with a valid
\* identifier) is answered 500 with the explanatory error "flatpak not
\* installed"; nothing was handed to run_cmd or Popen and no confirmation was
\* requested.
C11_ToolAbsent ==
    \A r \in Threads :
        ( /\ Accepted(r) /\ tool[r] = "absent" /\ req[r].tok = token
          /\ \/ req[r].method = "GET" /\ req[r].path = "/flatpak/list"
             \/ req[r].method = "POST" /\ req[r].path = "/update"
             \/ /\ req[r].method = "POST"
                /\ req[r].path \in {"/install", "/flatpak/run"}
                /\ req[r].body.kind = "appId"
                /\ Grammar(Strip(req[r].body.appId)) )
            => /\ pc[r] = "done"
               /\ IsNoFlatpak500(resp[r])
               /\ cmds[r] = <<>>
               /\ gate[r] = "none"

C11_Witness ==
    \E r, q \in Threads :
        /\ tool[r] = "absent" /\ req[r].method = "GET" /\ req[r].path = "/flatpak/list"
        /\ req[r].tok = token /\ IsNoFlatpak500(resp[r])
        /\ tool[q] = "absent" /\ req[q].method = "POST" /\ req[q].path = "/install"
        /\ req[q].body = Body("appId", <<"a", "-">>) /\ IsNoFlatpak500(resp[q])
        /\ cmds[q] = <<>>

\* The argument list launches an application: flatpak run <id>.
IsLaunchCmd(argv) == Len(argv) = 3 /\ argv[1] = K("flatpak") /\ argv[2] = K("run")

Launched(r) == \E i \in 1..Len(cmds[r]) : IsLaunchCmd(cmds[r][i])

\* C12: POST /flatpak/run with the correct token launches an application only
\* if the identifier it launches matches the grammar and `flatpak info` found
\* it installed (exit code 0), and the launch is of that identifier; if the
\* tool is present and the identifier is not installed, the response is
\* 400 {ok:false, error:"App not installed"} and nothing is launched.
C12_RunOnlyInstalled ==
    \A r \in Threads :
        /\ Launched(r)
              => /\ req[r].method = "POST" /\ req[r].path = "/flatpak/run"
                 /\ req[r].tok = token
                 /\ Grammar(app[r])
                 /\ app[r] = Strip(req[r].body.appId)
                 /\ Len(outs[r]) = 1 /\ outs[r][1].code = 0
                 /\ cmds[r] = << << K("flatpak"), K("info"), IdArg(app[r]) >>,
                                 << K("flatpak"), K("run"), IdArg(app[r]) >> >>
        /\ ( /\ req[r].method = "POST" /\ req[r].path = "/flatpak/run"
             /\ tool[r] = "present" /\ outs[r] # <<>> /\ outs[r][1].code # 0 )
              => /\ pc[r] = "done"
                 /\ resp[r].status = 400
                 /\ resp[r].payload = [ok |-> FALSE, error |-> <<"App not installed">>]
                 /\ ~Launched(r)

C12_Witness ==
    \E r, q \in Threads :
        /\ req[r].path = "/flatpak/run" /\ tool[r] = "present"
        /\ outs[r][1].code = 1 /\ resp[r].status = 400 /\ ~Launched(r)
        /\ req[q].path = "/flatpak/run" /\ Launched(q)
        /\ outs[q][1].code = 0 /\ resp[q].status = 200
        /\ resp[q].payload = [ok |-> TRUE, appId |-> <<"a", "-">>]

\* C13: POST /install with the correct token and a valid identifier S, the
\* tool present and the operator approving, whose install subprocess exits 0,
\* responds 200 {ok:true, appId:S, stdout, stderr} with the captured streams,
\* and the one install command executed is the per-user install from flathub
\* of exactly S.
C13_InstallSuccess ==
    \A r \in Threads :
        ( /\ req[r].method = "POST" /\ req[r].path = "/install" /\ req[r].tok = token
          /\ req[r].body.kind = "appId" /\ Grammar(req[r].body.appId)
          /\ tool[r] = "present" /\ gate[r] = "approved"
          /\ proc[r] # NoProc /\ proc[r].code = 0 )
            => /\ pc[r] = "done"
               /\ resp[r].status = 200
               /\ resp[r].payload = [ ok |-> TRUE, appId |-> req[r].body.appId,
                                      stdout |-> Strip(proc[r].out),
                                      stderr |-> Strip(proc[r].err) ]
               /\ SelectSeq(cmds[r], IsMutatingCmd)
                    = << << K("flatpak"), K("--user"), K("install"), K("-y"),
                            K("flathub"), IdArg(req[r].body.appId) >> >>
               /\ IsMutatingCmd(cmds[r][Len(cmds[r])])

C13_Witness ==
    \E r \in Threads :
        /\ req[r].method = "POST" /\ req[r].path = "/install"
        /\ req[r].body = Body("appId", <<"a", "-">>)
        /\ gate[r] = "approved" /\ prov[r] = "zenity"
        /\ proc[r] = [code |-> 0, out |-> <<"a">>, err |-> <<" ", "/">>]
        /\ resp[r].payload = [ ok |-> TRUE, appId |-> <<"a", "-">>,
                               stdout |-> <<"a">>, stderr |-> <<"/">> ]

\* A line of the remotes output names the flathub channel first.
NamesFlathub(line) ==
    Len(line) >= 7 /\ SubSeq(line, 1, 7) = << "f", "l", "a", "t", "h", "u", "b" >>

\* C14: GET /status, GET / and GET /index.html are answered 200 whatever the
\* token header is; handling them runs no install or update command and
\* requests no confirmation; /status reports ok:true, flatpak as the probe of
\* the tool found it, and a boolean flathub that is true only if the tool is
\* present and its remotes query exited 0 with a line naming flathub.
C14_OpenEndpoints ==
    \A r \in Threads :
        ( /\ Accepted(r) /\ req[r].method = "GET"
          /\ req[r].path \in {"/status", "/", "/index.html"} )
            => /\ pc[r] = "done"
               /\ resp[r].status = 200
               /\ ~RanMutating(r)
               /\ \A i \in 1..Len(cmds[r]) :
                     cmds[r][i] = << K("flatpak"), K("--user"), K("remotes") >>
               /\ gate[r] = "none"
               /\ req[r].path = "/status"
                     => /\ resp[r].payload.ok = TRUE
                        /\ resp[r].payload.flatpak = (tool[r] = "present")
                        /\ resp[r].payload.flathub \in BOOLEAN
                        /\ resp[r].payload.flathub
                              => /\ tool[r] = "present"
                                 /\ outs[r][1].code = 0
                                 /\ \E k \in 1..Len(outs[r][1].out) :
                                       NamesFlathub(SubSeq(outs[r][1].out, k, Len(outs[r][1].out)))

C14_Witness ==
    \E r, q \in Threads :
        /\ req[r].method = "GET" /\ req[r].path = "/status" /\ req[r].tok = "bad"
        /\ resp[r].status = 200 /\ resp[r].payload.flatpak /\ ~resp[r].payload.flathub
        /\ req[q].method = "GET" /\ req[q].path = "/index.html" /\ req[q].tok = ""
        /\ resp[q].status = 200

\* The two listing commands: the extended and the reduced column set.
ListExtended ==
    << K("flatpak"), K("list"), K("--app"),
       K("--columns=application,name,version,branch,origin,installation") >>

ListReduced ==
    << K("flatpak"), K("list"), K("--app"),
       K("--columns=application,name,version,branch,origin") >>

\* Thread r serves a GET /flatpak/list that carries the session token.
AuthenticatedList(r) ==
    /\ Accepted(r) /\ req[r].method = "GET" /\ req[r].path = "/flatpak/list"
    /\ req[r].tok = token

\* C15: an authenticated GET /flatpak/list requests no confirmation and hands
\* run_cmd nothing but the listing command (no remote-add, install, update or
\* run); with the tool present it returns 200 {ok:true, apps} when a listing
\* attempt exited 0 and 500 {ok:false, error} when every attempt failed.
C15_ListReadOnly ==
    \A r \in Threads :
        AuthenticatedList(r)
            => /\ pc[r] = "done"
               /\ gate[r] = "none"
               /\ \A i \in 1..Len(cmds[r]) : cmds[r][i] \in {ListExtended, ListReduced}
               /\ Len(cmds[r]) = Len(outs[r])
               /\ tool[r] = "present"
                     => IF \E i \in 1..Len(outs[r]) : outs[r][i].code = 0
                        THEN /\ resp[r].status = 200
                             /\ DOMAIN resp[r].payload = {"ok", "apps"}
                             /\ resp[r].payload.ok = TRUE
                        ELSE /\ resp[r].status = 500
                             /\ DOMAIN resp[r].payload = {"ok", "error"}
                             /\ resp[r].payload.ok = FALSE
                             /\ resp[r].payload.error # <<>>

C15_Witness ==
    \E r, q \in Threads :
        /\ AuthenticatedList(r) /\ resp[r].status = 200
        /\ Len(resp[r].payload.apps) = 2 /\ cmds[r] = << ListExtended >>
        /\ AuthenticatedList(q) /\ resp[q].status = 500
        /\ cmds[q] = << ListExtended, ListReduced >>

\* The text is the token YES in some mix of upper and lower case.
IsYesToken(t) ==
    /\ Len(t) = 3
    /\ t[1] \in {"y", "Y"} /\ t[2] \in {"e", "E"} /\ t[3] \in {"s", "S"}

\* C16: the console Confirmation Gate approves if and only if the line the
\* operator typed, taken without its line terminator and surrounding blanks,
\* is the token YES in upper, lower or mixed case; every other line, the empty
\* line and end of input included, rejects.
C16_ConsoleGate ==
    \A r \in Threads :
        prov[r] = "console" /\ gate[r] \in {"approved", "rejected"}
            => /\ gate[r] = "approved" <=> IsYesToken(Strip(answer[r].line))
               /\ answer[r].line \in {<<>>, <<"\n">>} => gate[r] = "rejected"

C16_Witness ==
    \E r, q \in Threads :
        /\ prov[r] = "console" /\ answer[r].line = <<"y", "e", "s", "\n">>
        /\ gate[r] = "approved" /\ pc[r] = "running"
        /\ prov[q] = "console" /\ answer[q].line = <<>>
        /\ gate[q] = "rejected" /\ pc[q] = "done"

\* Entries i and i+1 of the log are two calls of ensure_flathub_user() in
\* succession: nothing changed the machine between them.
InSuccession(i) ==
    /\ i + 1 <= Len(log)
    /\ log[i].kind = "call" /\ log[i + 1].kind = "call"

\* C17: two calls of the channel-configuration step in succession raise no
\* error, the channel state after the second equals the state after the
\* first, and a second call that finds the channel configured has its command
\* exit 0; a call made when the tool is absent runs nothing and leaves the
\* channel as it was.
C17_EnsureIdempotent ==
    /\ \A i \in 1..Len(log) :
          InSuccession(i)
              => /\ ~log[i].raised /\ ~log[i + 1].raised
                 /\ log[i + 1].after = log[i].after
                 /\ log[i + 1].ran = log[i].ran
                 /\ (log[i].after /\ log[i + 1].ran # <<>>) => log[i + 1].code = 0
    /\ \A i \in 1..Len(log) :
          (log[i].kind = "call" /\ ~host.tool /\ i = Len(log))
              => /\ log[i].ran = <<>>
                 /\ ~log[i].raised
                 /\ log[i].after = log[i].before

C17_Witness ==
    /\ Len(log) = 3
    /\ log[1].kind = "call" /\ ~log[1].before /\ log[1].after /\ log[1].code = 0
    /\ log[2].kind = "call" /\ log[2].before /\ log[2].after /\ log[2].code = 0
    /\ log[3].kind = "host" /\ ~host.tool

\* Column i of a row of the listing, blank when the row is too short.
Column(line, i) ==
    LET parts == Split(line, "\t") IN
    Strip(IF i <= Len(parts) THEN parts[i] ELSE <<>>)

\* Record a is made of the columns of the row: six of them, or five with an
\* empty installation.
FromRow(a, line, six) ==
    /\ a.id = Column(line, 1) /\ a.name = Column(line, 2)
    /\ a.version = Column(line, 3) /\ a.branch = Column(line, 4)
    /\ a.origin = Column(line, 5)
    /\ a.installation = IF six THEN Column(line, 6) ELSE <<>>

\* The rows of the captured output of listing attempt i of thread r.
Rows(r, i) == Split(Strip(outs[r][i].out), "\n")

\* C18: list_flatpak_apps tries the extended column set first and the reduced
\* one only if the tool failed for the extended one; the first attempt that
\* exits 0 gives the result and is the last attempt; with the extended set
\* every record has its six fields from one row of the output, with the
\* reduced set its five fields from one row and installation empty.
C18_ColumnSets ==
    \A r \in Threads :
        AuthenticatedList(r) /\ tool[r] = "present"
            => /\ Len(cmds[r]) \in {1, 2} /\ Len(outs[r]) = Len(cmds[r])
               /\ cmds[r][1] = ListExtended
               /\ Len(cmds[r]) = 2 <=> outs[r][1].code # 0
               /\ Len(cmds[r]) = 2 => cmds[r][2] = ListReduced
               /\ outs[r][Len(outs[r])].code = 0
                     => /\ resp[r].status = 200
                        /\ \A k \in 1..Len(resp[r].payload.apps) :
                              /\ DOMAIN resp[r].payload.apps[k]
                                    = {"id", "name", "version", "branch", "origin", "installation"}
                              /\ \E n \in 1..Len(Rows(r, Len(outs[r]))) :
                                    FromRow(resp[r].payload.apps[k],
                                            Rows(r, Len(outs[r]))[n], Len(outs[r]) = 1)

C18_Witness ==
    \E r, q \in Threads :
        /\ AuthenticatedList(r) /\ cmds[r] = << ListExtended >>
        /\ Len(resp[r].payload.apps) = 2
        /\ resp[r].payload.apps[1].installation = << "y" >>
        /\ AuthenticatedList(q) /\ cmds[q] = << ListExtended, ListReduced >>
        /\ resp[q].status = 200 /\ Len(resp[q].payload.apps) = 2
        /\ resp[q].payload.apps[1].id = << "c" >>
        /\ resp[q].payload.apps[1].installation = <<>>

\* The first column reads "application" or "application id", in any case.
IsHeaderText(t) ==
    \/ Lower(t) = << "a", "p", "p", "l", "i", "c", "a", "t", "i", "o", "n" >>
    \/ Lower(t) = << "a", "p", "p", "l", "i", "c", "a", "t", "i", "o", "n", " ", "i", "d" >>

\* The row carries an application: it is not blank, not a header, and its
\* first column is not empty.
IsDataRow(line) ==
    /\ Strip(line) # <<>>
    /\ ~IsHeaderText(Column(line, 1))
    /\ Column(line, 1) # <<>>

\* C19: whatever text the listing command returns with exit 0, the parser
\* gives a result: one record for each row that carries an application, a
\* row with fewer columns than the set giving empty strings for its missing
\* fields; header rows ("application", "application id", any case) give no
\* record; and every record has a non-empty identifier.
C19_RowsNeverFail ==
    \A r \in Threads :
        ( /\ AuthenticatedList(r) /\ tool[r] = "present"
          /\ outs[r] # <<>> /\ outs[r][Len(outs[r])].code = 0 )
            => LET rows == Rows(r, Len(outs[r]))
                   apps == resp[r].payload.apps
               IN
               /\ pc[r] = "done" /\ resp[r].status = 200 /\ resp[r].payload.ok = TRUE
               /\ Len(apps) = Cardinality({n \in 1..Len(rows) : IsDataRow(rows[n])})
               /\ \A n \in 1..Len(rows) :
                     IsDataRow(rows[n])
                        => \E k \in 1..Len(apps) : FromRow(apps[k], rows[n], Len(outs[r]) = 1)
               /\ \A k \in 1..Len(apps) :
                     apps[k].id # <<>> /\ ~IsHeaderText(apps[k].id)

C19_Witness ==
    \E r \in Threads :
        /\ AuthenticatedList(r) /\ outs[r] # <<>>
        /\ outs[r][1].out = Listing(<< HeaderRow, RowD, <<>>, RowE, SubSeq(RowC, 1, 5) >>)
        /\ Len(resp[r].payload.apps) = 3
        /\ resp[r].payload.apps[2]
              = [ id |-> << "d" >>, name |-> <<>>, version |-> <<>>, branch |-> <<>>,
                  origin |-> <<>>, installation |-> <<>> ]

\* The error text a failed listing attempt leaves: its captured stderr, or
\* its captured stdout when stderr is empty.
ErrorText(p) == IF Strip(p.err) # <<>> THEN Strip(p.err) ELSE Strip(p.out)

\* C20: when the listing command fails for both column sets, the failure
\* message is "Could not list flatpaks: " followed by the error text of the
\* last attempt, not of the first ("unknown error" when the last attempt left
\* no text), and the list endpoint answers 500 {ok:false, error:<message>}.
C20_LastErrorWins ==
    \A r \in Threads :
        ( /\ AuthenticatedList(r) /\ tool[r] = "present"
          /\ outs[r] # <<>> /\ \A i \in 1..Len(outs[r]) : outs[r][i].code # 0 )
            => /\ pc[r] = "done"
               /\ Len(outs[r]) = 2
               /\ resp[r].status = 500
               /\ resp[r].payload
                    = [ ok |-> FALSE,
                        error |-> << "Could not list flatpaks: " >>
                                    \o ( IF ErrorText(outs[r][2]) # <<>>
                                         THEN ErrorText(outs[r][2])
                                         ELSE << "unknown error" >> ) ]

C20_Witness ==
    \E r, q \in Threads :
        /\ AuthenticatedList(r)
        /\ outs[r] = << [code |-> 1, out |-> <<>>, err |-> << "e", "\n" >>],
                        [code |-> 1, out |-> << "o" >>, err |-> <<>>] >>
        /\ resp[r].payload.error = << "Could not list flatpaks: ", "o" >>
        /\ AuthenticatedList(q)
        /\ outs[q] = << [code |-> 1, out |-> << "o" >>, err |-> <<>>],
                        [code |-> 1, out |-> <<>>, err |-> << "e", "\n" >>] >>
        /\ resp[q].payload.error = << "Could not list flatpaks: ", "e" >>

\* The display name of a record in lower case, or its identifier in lower
\* case when the name is blank.
DisplayKey(a) == Lower(IF a.name = <<>> THEN a.id ELSE a.name)

\* C21: the records the list endpoint returns are in non-decreasing order of
\* lower-case(display name, or identifier when the name is blank), whatever
\* the listing was.
C21_SortedByName ==
    \A r \in Threads :
        ( /\ AuthenticatedList(r) /\ pc[r] = "done" /\ resp[r].status = 200 )
            => \A k \in 1..(Len(resp[r].payload.apps) - 1) :
                  TextLE(DisplayKey(resp[r].payload.apps[k]),
                         DisplayKey(resp[r].payload.apps[k + 1]))

C21_Witness ==
    \E r \in Threads :
        /\ AuthenticatedList(r) /\ resp[r].status = 200
        /\ outs[r][1].out = Listing(<< RowB, RowC >>) \o << "\n" >>
        /\ Len(resp[r].payload.apps) = 2
        /\ resp[r].payload.apps[1].name = << "a" >>
        /\ resp[r].payload.apps[2].name = << "Z" >>

\* The argument lists of thread r that run a dialog tool.
IsDialogCmd(argv) == argv[1] \in {K("kdialog"), K("zenity")}

DialogCmds(r) == SelectSeq(cmds[r], IsDialogCmd)

\* Thread r has entered the Confirmation Gate.
InGate(r) == gate[r] # "none"

Decided(r) == gate[r] \in {"approved", "rejected"}

\* C22 (as stated): with a display and the KDE-style dialog tool the gate
\* uses that dialog; else, if the GNOME-style dialog tool is present, it uses
\* that one; else the console.
C22_AsStated ==
    \A r \in Threads :
        InGate(r)
            => prov[r] = IF genv[r].display /\ genv[r].kdialog THEN "kdialog"
                         ELSE IF genv[r].zenity THEN "zenity"
                         ELSE "console"

\* C22 (amended): with a display and the KDE-style dialog tool the gate runs
\* kdialog and approves iff it exits 0; else, with a display and the
\* GNOME-style dialog tool, it runs zenity the same way; else (no display, or
\* neither tool) it prompts on the console.  One provider is consulted: one
\* dialog command and no console line, or no dialog command.
C22_ProviderOrder ==
    \A r \in Threads :
        InGate(r)
            => /\ prov[r] = IF genv[r].display /\ genv[r].kdialog THEN "kdialog"
                            ELSE IF genv[r].display /\ genv[r].zenity THEN "zenity"
                            ELSE "console"
               /\ prov[r] = "kdialog"
                     => /\ Len(DialogCmds(r)) = 1
                        /\ DialogCmds(r)[1][1] = K("kdialog")
                        /\ DialogCmds(r)[1][4] = K("--yesno")
               /\ prov[r] = "zenity"
                     => /\ Len(DialogCmds(r)) = 1
                        /\ DialogCmds(r)[1][1] = K("zenity")
                        /\ DialogCmds(r)[1][2] = K("--question")
               /\ prov[r] = "console" => DialogCmds(r) = <<>>
               /\ (prov[r] # "console" /\ Decided(r))
                     => /\ gate[r] = "approved" <=> answer[r].exit = 0
                        /\ answer[r].line = <<>>

C22_Witness ==
    \E r, q \in Threads :
        /\ genv[r] = [display |-> TRUE, kdialog |-> FALSE, zenity |-> TRUE]
        /\ prov[r] = "zenity" /\ gate[r] = "approved" /\ answer[r].exit = 0
        /\ genv[q] = [display |-> FALSE, kdialog |-> TRUE, zenity |-> TRUE]
        /\ prov[q] = "console" /\ gate[q] = "rejected"

\* One step of the confirmation of thread r: it starts awaiting the decision,
\* leaves that state only with an answer of the operator, for approved or
\* rejected, and never leaves those; a step without an answer leaves it
\* awaiting, with no response sent and no further command run.
GateStep(r) ==
    /\ gate[r] = "none" => gate'[r] \in {"none", "awaiting"}
    /\ Decided(r) => gate'[r] = gate[r]
    /\ gate[r] = "awaiting"
          => \/ /\ gate'[r] = "awaiting"
                /\ pc'[r] = "confirm" /\ resp'[r] = resp[r] /\ cmds'[r] = cmds[r]
             \/ /\ gate'[r] \in {"approved", "rejected"}
                /\ answer[r] = NoAnswer /\ answer'[r] # NoAnswer

\* While the decision is awaited nothing was answered, no response was sent
\* and the install/update command has not run.
GatePending(r) ==
    gate[r] = "awaiting"
        => /\ pc[r] = "confirm" /\ answer[r] = NoAnswer
           /\ resp[r] = NoResp /\ ~RanMutating(r)

\* C23: each confirmation starts in AWAITING_DECISION and moves at most once,
\* only on an operator response, to APPROVED or REJECTED, which are terminal;
\* there is no timeout: without an operator response the request stays
\* awaiting, sends no response and does not run its command.
C23_GateMachine ==
    /\ [](\A r \in Threads : GatePending(r))
    /\ [][\A r \in Threads : GateStep(r)]_vars

C23_Witness ==
    \E r, q \in Threads :
        /\ gate[r] = "awaiting" /\ pc[r] = "confirm" /\ resp[r] = NoResp
        /\ req[r].path = "/install" /\ prov[r] = "console"
        /\ gate[q] = "approved" /\ pc[q] = "done" /\ req[q].path = "/update"
        /\ proc[q].code = 0

\* The name column of a row of the remotes listing: the row, trimmed, up to
\* its first blank or tab.
RECURSIVE UpToSeparator(_)
UpToSeparator(t) ==
    IF t = <<>> \/ Head(t) \in {" ", "\t"} THEN <<>>
    ELSE << Head(t) >> \o UpToSeparator(Tail(t))

NameColumn(line) == UpToSeparator(Strip(line))

\* The remotes listing p names the channel flathub in one of its rows.
ListsFlathub(p) ==
    \E n \in 1..Len(Split(Strip(p.out), "\n")) :
        NameColumn(Split(Strip(p.out), "\n")[n]) = << "f", "l", "a", "t", "h", "u", "b" >>

\* C24: the flathub flag of /status, which is flathub_configured(), is true
\* exactly when the tool is present, the user-scope remotes query exits 0 and
\* a row of its output has the name flathub, whatever separates the name
\* from further columns; a name that only starts with flathub does not count.
C24_ChannelConfigured ==
    \A r \in Threads :
        ( /\ Accepted(r) /\ req[r].method = "GET" /\ req[r].path = "/status"
          /\ pc[r] = "done" )
            => resp[r].payload.flathub
                  = ( /\ tool[r] = "present"
                      /\ outs[r] # <<>>
                      /\ outs[r][1].code = 0
                      /\ ListsFlathub(outs[r][1]) )

\* Thread r serves POST /flatpak/run with the server's token.
ServesRun(r) ==
    /\ Accepted(r) /\ req[r].method = "POST" /\ req[r].path = "/flatpak/run"
    /\ req[r].tok = token

\* C25: POST /flatpak/run never enters the Confirmation Gate and shows no
\* dialog; whenever the application it launched is still running (or has
\* exited since) the response 200 {ok:true, appId} has already been sent, so
\* the response never waits for the application; when the spawn fails the
\* response is 500 {ok:false, error} with an error text.
C25_RunReturnsAtOnce ==
    \A r \in Threads :
        ServesRun(r)
            => /\ gate[r] = "none" /\ pc[r] # "confirm" /\ prov[r] = "none"
               /\ DialogCmds(r) = <<>>
               /\ child[r] \in {"running", "exited"}
                     => /\ pc[r] = "done" /\ resp[r].status = 200
                        /\ resp[r].payload = [ok |-> TRUE, appId |-> app[r]]
               /\ child[r] = "failed"
                     => /\ pc[r] = "done" /\ resp[r].status = 500
                        /\ DOMAIN resp[r].payload = {"ok", "error"}
                        /\ resp[r].payload.ok = FALSE
                        /\ resp[r].payload.error # <<>>

\* One launched application is still running after its request was answered
\* with 200, and another request's spawn failed and was answered with 500.
C25_Witness ==
    \E r, q \in Threads :
        /\ ServesRun(r) /\ child[r] = "running" /\ resp[r].status = 200
        /\ ServesRun(q) /\ child[q] = "failed" /\ resp[q].status = 500

\* Thread q can take a request and send its response in the same step.
CanAnswer(A(_), q) == ENABLED (A(q) /\ pc'[q] = "done" /\ resp'[q] # NoResp)

\* Thread q can take an install or update request as far as its own prompt.
CanPrompt(A(_), q) == ENABLED (A(q) /\ gate'[q] = "awaiting")

RunningApproved(r) ==
    /\ pc[r] = "running" /\ gate[r] = "approved"
    /\ IsMutatingCmd(cmds[r][Len(cmds[r])])

\* C27: nothing orders two mutating requests: whenever the install/update
\* subprocess of one approved request is running and another request waits
\* at its prompt, the operator's approval of the second starts its
\* subprocess at once, while the first is still running.
C27_NotSerialized ==
    \A r, q \in Threads :
        (r # q /\ RunningApproved(r) /\ pc[q] = "confirm")
            => ENABLED ( /\ Decide(q)
                         /\ pc'[q] = "running" /\ gate'[q] = "approved"
                         /\ pc'[r] = "running" )

\* Two approved installs have their subprocesses running at the same time.
C27_Witness ==
    /\ RunningApproved(1) /\ req[1].path = "/install"
    /\ RunningApproved(2) /\ req[2].path = "/install"
    /\ proc[1].code = -1 /\ proc[2].code = -1

\* C28: the token compared against never changes, and the decision of each
\* request's gate is made by the operator's answer to that request's own
\* prompt, never by an answer meant for another pending request, the console
\* fallback included.
C28_NoSharedState ==
    /\ token = "tok"
    /\ \A r \in Threads :
          Decided(r) => /\ answer[r] # NoAnswer
                        /\ meant[r] = r

\* Thread r serves POST /update with the server's token.
ServesUpdate(r) ==
    /\ Accepted(r) /\ req[r].method = "POST" /\ req[r].path = "/update"
    /\ req[r].tok = token

\* Argument w is a literal of the program text, with nothing of the request.
IsLiteral(w) == w.kind = "const" /\ w.id = <<>>

\* C29: every argument list an authorised POST /update hands to a subprocess
\* is made of literals only; its prompt is "Update ALL user Flatpaks now?"
\* and its command is `flatpak --user update -y`; and two such requests with
\* different bodies that found the same tool and provider and got the same
\* decision have run the same argument lists.
C29_UpdateIsFixed ==
    /\ \A r \in Threads :
          ServesUpdate(r)
              => /\ app[r] = <<>>
                 /\ \A i \in 1..Len(cmds[r]) :
                       /\ \A j \in 1..Len(cmds[r][i]) : IsLiteral(cmds[r][i][j])
                       /\ IsDialogCmd(cmds[r][i])
                             => cmds[r][i][Len(cmds[r][i])].pre
                                    = "Update ALL user Flatpaks now?"
                       /\ IsMutatingCmd(cmds[r][i])
                             => /\ Len(cmds[r][i]) = 4
                                /\ cmds[r][i][1].pre = "flatpak"
                                /\ cmds[r][i][2].pre = "--user"
                                /\ cmds[r][i][3].pre = "update"
                                /\ cmds[r][i][4].pre = "-y"
                 /\ gate[r] = "approved" => RanMutating(r)
    /\ \A r, q \in Threads :
          ( /\ ServesUpdate(r) /\ ServesUpdate(q)
            /\ req[r].body # req[q].body
            /\ tool[r] = tool[q] /\ prov[r] = prov[q] /\ gate[r] = gate[q] )
              => cmds[r] = cmds[q]

\* Two approved /update requests, one with an empty body and one whose body
\* carries an appId, have both started the update command.
C29_Witness ==
    \E r, q \in Threads :
        /\ ServesUpdate(r) /\ req[r].body.kind = "empty"
        /\ ServesUpdate(q) /\ req[q].body.kind = "appId" /\ req[q].body.appId # <<>>
        /\ gate[r] = "approved" /\ gate[q] = "approved"
        /\ RanMutating(r) /\ RanMutating(q)

\* The install/update commands thread r has executed.
MutatingCmds(r) == SelectSeq(cmds[r], IsMutatingCmd)

\* C30: a request runs its install/update command at most once and its
\* response ends its handler; and every request taken that has not yet sent
\* its response is waiting for the operator's answer or for its subprocess to
\* exit, so that with both arriving the response is sent.
C30_EveryRequestResponds ==
    \A r \in Threads :
        /\ Len(MutatingCmds(r)) <= 1
        /\ resp[r] # NoResp => pc[r] = "done"
        /\ (Accepted(r) /\ resp[r] = NoResp)
              => \/ ENABLED (Decide(r) /\ pc'[r] \in {"done", "running"})
                 \/ ENABLED (CmdExit(r) /\ resp'[r] # NoResp)

====
